---- MODULE Spec2Model ----
(***************************************************************************)
(* Model of the chess assistant backend of 05_Our_First_Agent_with_        *)
(* LangGraph: ChessMultiAgentSystem (agents/multi_agent_graph.py) and      *)
(* EmbeddingModel.async_get_embeddings_with_backoff (aimakerspace/         *)
(* openai_utils/embedding.py).                                             *)
(*                                                                         *)
(* Text is a sequence of one-character strings, so that lower(), upper(),  *)
(* strip(), substring tests and the username regular expression are        *)
(* computed.  A fixed reply whose text no code inspects is a sequence of   *)
(* one element holding the text.  A Python dict is a set of <<key, value>> *)
(* pairs with distinct keys.                                               *)
(***************************************************************************)
EXTENDS Integers, Sequences, FiniteSets, TLC

(* ------------------------------ bounds -------------------------------- *)

\* number of process_query calls one behaviour makes
MaxTurns == 2

\* largest number of passages the knowledge base holds for one query
MaxChunks == 2

\* number of embedding calls (async_get_embeddings_with_backoff) modelled
MaxEmbedCalls == 2

(* ------------------------------- text --------------------------------- *)

Lowers == <<"a", "b", "c", "d", "e", "f", "g", "h", "i", "j", "k", "l", "m",
            "n", "o", "p", "q", "r", "s", "t", "u", "v", "w", "x", "y", "z">>

Uppers == <<"A", "B", "C", "D", "E", "F", "G", "H", "I", "J", "K", "L", "M",
            "N", "O", "P", "Q", "R", "S", "T", "U", "V", "W", "X", "Y", "Z">>

Digits == {"0", "1", "2", "3", "4", "5", "6", "7", "8", "9"}

Whitespace == {" ", "\n", "\t", "\r", "\f"}

Range(f) == {f[i] : i \in DOMAIN f}

LowerSet == Range(Lowers)

UpperSet == Range(Uppers)

\* the characters of the class [a-zA-Z0-9_] (no modelled text holds a '-')
WordChars == LowerSet \cup UpperSet \cup Digits \cup {"_"}

LowerOf == [c \in UpperSet |-> Lowers[CHOOSE i \in DOMAIN Uppers : Uppers[i] = c]]

UpperOf == [c \in LowerSet |-> Uppers[CHOOSE i \in DOMAIN Lowers : Lowers[i] = c]]

LowerChar(c) == IF c \in UpperSet THEN LowerOf[c] ELSE c

UpperChar(c) == IF c \in LowerSet THEN UpperOf[c] ELSE c

\* The operators on texts bind their argument once (t \in {s}), so that the text
\* is evaluated once however often the body reads it.

\* str.lower()
Lower(s) == CHOOSE r \in { [i \in 1..Len(t) |-> LowerChar(t[i])] : t \in {s} } : TRUE

\* str.upper()
Upper(s) == CHOOSE r \in { [i \in 1..Len(t) |-> UpperChar(t[i])] : t \in {s} } : TRUE

\* the text from its first to its last character that is no whitespace
StripText(t) ==
    IF \A i \in 1..Len(t) : t[i] \in Whitespace THEN <<>>
    ELSE SubSeq(t,
                CHOOSE i \in 1..Len(t) :
                    t[i] \notin Whitespace /\ \A j \in 1..(i - 1) : t[j] \in Whitespace,
                CHOOSE i \in 1..Len(t) :
                    t[i] \notin Whitespace /\ \A j \in (i + 1)..Len(t) : t[j] \in Whitespace)

\* str.strip(): drop the leading and the trailing whitespace
Strip(s) == CHOOSE r \in { StripText(t) : t \in {s} } : TRUE

\* sub in s
Contains(s, sub) ==
    \E t \in {s} : \E i \in 0..(Len(t) - Len(sub)) : SubSeq(t, i + 1, i + Len(sub)) = sub

\* any(word in s for word in words)
ContainsAny(s, words) == \E t \in {s} : \E w \in words : Contains(t, w)

\* position i of t ends a run of word characters
EndsRun(t, i) == t[i] \in WordChars /\ (i = Len(t) \/ t[i + 1] \notin WordChars)

\* the leftmost maximal run of word characters of t, <<>> when t holds none
FirstRun(t) ==
    IF \A i \in 1..Len(t) : t[i] \notin WordChars THEN <<>>
    ELSE SubSeq(t,
                CHOOSE i \in 1..Len(t) :
                    t[i] \in WordChars /\ \A j \in 1..(i - 1) : t[j] \notin WordChars,
                CHOOSE i \in 1..Len(t) :
                    EndsRun(t, i) /\ \A j \in 1..(i - 1) : ~EndsRun(t, j))

\* re.search(r'\b([a-zA-Z0-9_-]+)\b', s).group(1), <<>> when nothing matches
FirstToken(s) == CHOOSE r \in { FirstRun(t) : t \in {s} } : TRUE

(* ------------------------------- dicts -------------------------------- *)

EmptyDict == {}

\* key in d
DictHas(d, k) == \E p \in d : p[1] = k

\* d.get(k, default)
DictGet(d, k, default) ==
    IF DictHas(d, k) THEN (CHOOSE p \in d : p[1] = k)[2] ELSE default

\* d[k] = v
DictSet(d, k, v) == {p \in d : p[1] # k} \cup {<<k, v>>}

\* {**a, **b}
DictMerge(a, b) == {p \in a : ~DictHas(b, p[1])} \cup b

(* ---------------------------- fixed texts ----------------------------- *)

simple_greetings ==
    { <<"h", "i">>, <<"h", "e", "l", "l", "o">>, <<"h", "e", "y">>,
      <<"g", "r", "e", "e", "t", "i", "n", "g", "s">>,
      <<"g", "o", "o", "d", " ", "m", "o", "r", "n", "i", "n", "g">>,
      <<"g", "o", "o", "d", " ", "a", "f", "t", "e", "r", "n", "o", "o", "n">>,
      <<"g", "o", "o", "d", " ", "e", "v", "e", "n", "i", "n", "g">> }

RAG_AGENT == <<"R", "A", "G", "_", "A", "G", "E", "N", "T">>

CHESS_AGENT == <<"C", "H", "E", "S", "S", "_", "A", "G", "E", "N", "T">>

FINAL_RESPONSE == <<"F", "I", "N", "A", "L", "_", "R", "E", "S", "P", "O", "N", "S", "E">>

END_DECISION == <<"E", "N", "D">>

valid_decisions == {RAG_AGENT, CHESS_AGENT, FINAL_RESPONSE, END_DECISION}

\* the words that make _chess_agent take the first token of the text as a username
username_words ==
    { <<"p", "l", "a", "y", "e", "r">>, <<"u", "s", "e", "r">>,
      <<"u", "s", "e", "r", "n", "a", "m", "e">>,
      <<"a", "n", "a", "l", "y", "z", "e">>,
      <<"g", "a", "m", "e", "s">>, <<"s", "t", "a", "t", "s">> }

\* the phrases by which the user refers to their own games or statistics
my_words ==
    { <<"m", "y", " ", "g", "a", "m", "e", "s">>,
      <<"m", "y", " ", "s", "t", "a", "t", "s">>,
      <<"m", "y", " ", "l", "a", "s", "t">>,
      <<"m", "y", " ", "r", "e", "c", "e", "n", "t">>,
      <<"a", "n", "a", "l", "y", "z", "e", " ", "m", "y">> }

\* the phrases that ask for a game analysis
analysis_words ==
    { <<"a", "n", "a", "l", "y", "z", "e", " ", "g", "a", "m", "e", "s">>,
      <<"r", "e", "c", "e", "n", "t", " ", "g", "a", "m", "e", "s">>,
      <<"m", "y", " ", "g", "a", "m", "e", "s">>,
      <<"g", "a", "m", "e", " ", "a", "n", "a", "l", "y", "s", "i", "s">> }

\* '1' .. '9', '10', '15', '20': a text holds one of them exactly when it holds
\* one of '1' .. '9'
count_words == { <<d>> : d \in Digits \ {"0"} }

for_username == <<" ", "f", "o", "r", " ", "u", "s", "e", "r", "n", "a", "m", "e", " ">>

\* the reply of process_query to a greeting
query_greeting_response == <<"Hello! I'm your Chess Assistant. I can help you analyze games, ...">>

\* the reply of _rag_agent to a greeting
greeting_response == <<"Hello! I'm your Chess Knowledge Assistant. ...">>

\* the reply of _rag_agent when no passage was retrieved
general_response(user_query) ==
    <<"I don't have specific information about \"">> \o user_query
        \o <<"\" in my chess knowledge base. However, I can help you with: ...">>

rag_fallback_response == <<"I apologize, but I'm having trouble accessing my chess knowledge base right now. ...">>

chess_fallback_response == <<"I apologize, but I'm having trouble accessing Chess.com data right now. ...">>

final_fallback_response == <<"Hello! I'm your Chess Assistant. I can help you with chess-related questions, ...">>

loop_response == <<"I've gathered the information but seem to be in a loop. ...">>

how_many_response == <<"I'd be happy to analyze your games! How many of your recent games ...">>

process_message_apology == <<"I apologize, but I encountered an error processing your request. Please try again.">>

\* f"Sorry, I encountered an error: {str(e)}"
error_response(e) == <<"Sorry, I encountered an error: ">> \o e

key_error == <<"Valid OpenAI API key is required">>

\* the recursion_limit process_message gives graph.invoke
recursion_limit == 15

(* ------------------------------ inputs -------------------------------- *)

\* the queries of the callers: greetings as typed, and other questions
Queries ==
    { <<"h", "i">>, <<" ", "H", "i", " ">>, <<"H", "E", "L", "L", "O", "\n">>, <<"h", "e", "y">>,
      <<"g", "r", "e", "e", "t", "i", "n", "g", "s">>,
      <<"G", "o", "o", "d", " ", "M", "o", "r", "n", "i", "n", "g">>,
      <<"g", "o", "o", "d", " ", "a", "f", "t", "e", "r", "n", "o", "o", "n">>,
      <<"g", "o", "o", "d", " ", "e", "v", "e", "n", "i", "n", "g">>,
      <<"h", "i", " ", "b", "o", "b">>,
      <<"b", "o", "b", " ", "s", "t", "a", "t", "s">>,
      <<"m", "y", " ", "g", "a", "m", "e", "s">>,
      <<"e", "4", " ", "e", "5">> }

\* api_keys.get("openai_key"): "None" stands for a missing key
Keys == {"None", "", "dummy", "sk-live"}

\* the texts the supervisor model answers with
SupervisorReplies ==
    { <<" ", "r", "a", "g", "_", "a", "g", "e", "n", "t", "\n">>,
      <<"C", "h", "e", "s", "s", "_", "A", "g", "e", "n", "t">>,
      <<"F", "I", "N", "A", "L", "_", "R", "E", "S", "P", "O", "N", "S", "E">>,
      <<"E", "n", "d">>,
      <<"R", "A", "G", " ", "A", "G", "E", "N", "T">>,
      <<>> }

bob == <<"b", "o", "b">>

\* the tool calls the chess model asks for: with the required username, and without
ToolCalls ==
    { [name |-> "get_player_stats", args |-> {<<"username", bob>>}],
      [name |-> "get_player_stats", args |-> EmptyDict] }

\* what an LLM writes as an answer
llm_answer == <<"(the model's answer)">>

\* the replies of the chess model: an answer, or a request for one tool call
ChessReplies ==
    { [type |-> "ai", content |-> llm_answer, tool_calls |-> <<>>] }
    \cup { [type |-> "ai", content |-> <<>>, tool_calls |-> <<tc>>] : tc \in ToolCalls }

\* the content of the ToolMessage the tool node writes for a tool call: the first
\* line of what get_player_stats returns, or, for a call without the required
\* username, the error text of the tool node (shortened)
ToolOutput(tc) ==
    IF tc.name = "get_player_stats" /\ DictHas(tc.args, "username")
    THEN <<"P", "l", "a", "y", "e", "r", ":", " ">> \o DictGet(tc.args, "username", <<>>)
    ELSE <<"E", "r", "r", "o", "r", ":", " ", "u", "s", "e", "r", "n", "a", "m", "e", " ", "f", "i", "e", "l", "d", " ", "r", "e", "q", "u", "i", "r", "e", "d">>

(* ------------------------------- state -------------------------------- *)

VARIABLES
    pc,                 \* where the call of process_query stands: "idle", a graph node, or "END"
    self,               \* the fields of the ChessMultiAgentSystem instance
    query,              \* the query argument of the call
    conversation_state, \* the conversation_state argument of the call
    state,              \* the MultiAgentState the graph run carries
    result,             \* the dictionary the call of process_query returned, NoResult before
    pm_result,          \* the dictionary the call of process_message returned, NoPmResult before
    run,                \* what the call did so far: nodes run, exceptions caught, LLM calls
    turn,               \* the number of calls of process_query so far
    emb,                \* the call of async_get_embeddings_with_backoff
    qdrant,             \* core.qdrant_client._qdrant_client and the chess_knowledge collection
    pending,            \* the knowledge requests that await file.read()
    http,               \* the last response of a knowledge endpoint
    pgn,                \* the last request to POST /pgn and its response
    retriever           \* the ChessDocumentRetriever and its call of retrieve_documents

vars == <<pc, self, query, conversation_state, state, result, pm_result, run, turn, emb,
          qdrant, pending, http, pgn, retriever>>

api_vars == <<qdrant, pending, http, pgn, retriever>>

graph_vars == <<pc, self, query, conversation_state, state, result, pm_result, run, turn>>

Last(s) == s[Len(s)]

\* s[-n:]
LastN(s, n) == IF Len(s) <= n THEN s ELSE SubSeq(s, Len(s) - n + 1, Len(s))

HumanMessage(content) == [type |-> "human", content |-> content, tool_calls |-> <<>>]

AIMessage(content) == [type |-> "ai", content |-> content, tool_calls |-> <<>>]

ToolMessage(content) == [type |-> "tool", content |-> content, tool_calls |-> <<>>]

\* an external call that raised, and one that returned value
Raised == [raised |-> TRUE, value |-> <<>>]

Returned(value) == [raised |-> FALSE, value |-> value]

\* a bug: the conversation state of the caller is ignored
initial_state_fresh(message, conv) ==
    [ messages |-> <<HumanMessage(message)>>,
      current_agent |-> "",
      rag_context |-> EmptyDict,
      chess_data |-> EmptyDict,
      supervisor_decision |-> <<>>,
      iteration_count |-> 0 ]

\* process_message, the initial state of the graph run
initial_state(message, conv) ==
    IF conv # EmptyDict
    THEN [ messages |-> DictGet(conv, "messages", <<>>) \o <<HumanMessage(message)>>,
           current_agent |-> "",
           rag_context |-> DictGet(conv, "rag_context", EmptyDict),
           chess_data |-> DictGet(conv, "chess_data", EmptyDict),
           supervisor_decision |-> <<>>,
           iteration_count |-> 0 ]
    ELSE [ messages |-> <<HumanMessage(message)>>,
           current_agent |-> "",
           rag_context |-> EmptyDict,
           chess_data |-> EmptyDict,
           supervisor_decision |-> <<>>,
           iteration_count |-> 0 ]

NoRun == [trace |-> <<>>, raised |-> {}, supervisor_reply |-> Raised, kb_hits |-> 0,
          llm_calls |-> 0, models_built |-> 0, key |-> "None"]

NoResult == [response |-> <<>>, agent_used |-> <<>>, rag_sources |-> 0,
             conversation_state |-> EmptyDict]

NoPmResult == [response |-> <<>>, state |-> EmptyDict, success |-> FALSE]

NoEmb == [pc |-> "idle", attempt |-> 0, has_key |-> FALSE, list_of_text |-> <<>>,
          outcomes |-> <<>>, sleeps |-> <<>>, returned |-> [raised |-> FALSE, value |-> <<>>],
          calls |-> 0]

\* no exception, an HTTPException with a status code, and any other exception
NoException == [kind |-> "None", status |-> 0]

HTTPException(status_code) == [kind |-> "HTTPException", status |-> status_code]

OtherException == [kind |-> "Exception", status |-> 0]

\* no UploadFile
NoFile == [filename |-> "", content_type |-> "", file_hash |-> "", chunks |-> 0]

\* ChessQdrantClient.__init__, line 15: no client before _initialize_client ran
NoQdrant == [initialized |-> FALSE, client |-> "None", points |-> {}, next_id |-> 1]

NoHttp == [responses |-> 0, endpoint |-> "", filename |-> "", file |-> NoFile,
           raised |-> NoException, status |-> 0, exists |-> FALSE,
           chunks_deleted |-> 0, chunks_created |-> 0, files |-> {}]

NoPgn == [calls |-> 0, request |-> [pgn |-> <<>>, qdrant_api_key |-> "None"],
          env_key |-> FALSE, agent |-> [success |-> FALSE, analysis |-> <<>>],
          store |-> "ok", agent_invoked |-> FALSE, stored |-> FALSE,
          status |-> 0, success |-> FALSE, vector_storage |-> FALSE,
          qdrant_available |-> FALSE, analysis_summary |-> <<>>]

\* ChessDocumentRetriever.__init__, lines 14-18: no Qdrant client yet, and no call
NoRetriever == [pc |-> "idle", calls |-> 0, qdrant_client |-> "None", k |-> 0,
                expanded_queries |-> 0, searched |-> 0, all_documents |-> <<>>,
                search_results |-> <<>>, returned |-> [raised |-> FALSE, value |-> <<>>]]

\* ChessMultiAgentSystem(openai_key=None): no key, no models, no graph
GraphInit ==
    /\ pc = "idle"
    /\ self = [openai_key |-> "None", supervisor_model |-> "None", graph |-> "None"]
    /\ query = <<>>
    /\ conversation_state = EmptyDict
    /\ state = initial_state(<<>>, EmptyDict)
    /\ result = NoResult
    /\ pm_result = NoPmResult
    /\ run = NoRun
    /\ turn = 0

Init ==
    /\ GraphInit
    /\ emb = NoEmb
    /\ qdrant = NoQdrant
    /\ pending = <<>>
    /\ http = NoHttp
    /\ pgn = NoPgn
    /\ retriever = NoRetriever

(* ------------------------- the graph's nodes -------------------------- *)

\* a bug: the decision is stored without the check against valid_decisions
supervisor_agent_unvalidated(s, out) ==
    IF out.raised
    THEN [s EXCEPT !.supervisor_decision = FINAL_RESPONSE,
                   !.current_agent = "supervisor"]
    ELSE [s EXCEPT !.supervisor_decision = Upper(Strip(out.value)),
                   !.current_agent = "supervisor",
                   !.iteration_count = @ + 1]

\* _supervisor_agent: out is what supervisor_model.invoke did
supervisor_agent(s, out) ==
    IF out.raised
    THEN [s EXCEPT !.supervisor_decision = FINAL_RESPONSE,
                   !.current_agent = "supervisor"]
    ELSE LET decision == Upper(Strip(out.value))
         IN  [s EXCEPT !.supervisor_decision =
                            IF decision \notin valid_decisions THEN FINAL_RESPONSE ELSE decision,
                       !.current_agent = "supervisor",
                       !.iteration_count = @ + 1]

\* _supervisor_routing and the conditional edges of the supervisor
supervisor_routing(s) ==
    LET decision == Lower(s.supervisor_decision)
    IN  IF decision = Lower(RAG_AGENT) THEN "rag_agent"
        ELSE IF decision = Lower(CHESS_AGENT) THEN "chess_agent"
        ELSE IF decision = Lower(END_DECISION) THEN "END"
        ELSE "final_response"

\* rag.retrieve.document_retriever, as multi_agent_graph imports it
document_retriever == "None"

\* the methods of ChessDocumentRetriever
retriever_methods ==
    {"_ensure_clients", "expand_chess_query", "retrieve_documents",
     "get_contextual_answer", "get_collection_info"}

\* document_retriever.get_context_for_query(query, max_chunks=8, max_chars=6000),
\* for a knowledge base that holds hits passages for the query
get_context_for_query(hits) ==
    IF document_retriever = "None" \/ "get_context_for_query" \notin retriever_methods
    THEN Raised
    ELSE Returned({ <<"context", <<"(passages)">> >>, <<"context_count", hits>>,
                    <<"similarity_scores", hits>> })

\* _rag_agent: hits passages in the knowledge base, out is what rag_agent_model.invoke
\* does when it is called
rag_agent(s, hits, out) ==
    LET user_query == Last(s.messages).content
        fallback == [s EXCEPT !.messages = @ \o <<AIMessage(rag_fallback_response)>>,
                              !.current_agent = "rag_agent"]
    IN  IF Strip(Lower(user_query)) \in simple_greetings
        THEN [s EXCEPT !.messages = @ \o <<AIMessage(greeting_response)>>,
                       !.rag_context = { <<"context", <<>> >>, <<"context_count", 0>>,
                                         <<"similarity_scores", 0>> },
                       !.current_agent = "rag_agent"]
        ELSE LET got == get_context_for_query(hits)
             IN  IF got.raised THEN fallback
                 ELSE IF DictGet(got.value, "context_count", 0) = 0
                 THEN [s EXCEPT !.messages = @ \o <<AIMessage(general_response(user_query))>>,
                                !.rag_context = got.value,
                                !.current_agent = "rag_agent"]
                 ELSE IF out.raised THEN fallback
                 ELSE [s EXCEPT !.messages = @ \o <<AIMessage(out.value)>>,
                                !.rag_context = got.value,
                                !.current_agent = "rag_agent"]

\* whether _rag_agent calls rag_agent_model.invoke
rag_agent_calls_llm(s, hits) ==
    /\ Strip(Lower(Last(s.messages).content)) \notin simple_greetings
    /\ ~get_context_for_query(hits).raised
    /\ DictGet(get_context_for_query(hits).value, "context_count", 0) # 0

\* _chess_agent, lines 284-290: the username the text names
extract_username(chess_data, user_query) ==
    IF FirstToken(user_query) # <<>> /\ ContainsAny(Lower(user_query), username_words)
    THEN DictSet(chess_data, "last_username", FirstToken(user_query))
    ELSE chess_data

\* _chess_agent, lines 292-295: the query with the stored username
with_stored_username(chess_data, user_query) ==
    IF ContainsAny(Lower(user_query), my_words) /\ DictHas(chess_data, "last_username")
    THEN user_query \o for_username \o DictGet(chess_data, "last_username", <<>>)
    ELSE user_query

\* _chess_agent, line 298: a game analysis is asked for and no count is given
asks_without_count(user_query) ==
    /\ ContainsAny(Lower(user_query), analysis_words)
    /\ ~ContainsAny(user_query, count_words)

\* a bug: args.get('username') of the last tool call is stored, present or not
record_every_tool_call(chess_data, tool_calls) ==
    IF tool_calls = <<>> THEN chess_data
    ELSE DictSet(chess_data, "last_username",
                 DictGet(tool_calls[Len(tool_calls)].args, "username", <<>>))

\* _chess_agent, lines 338-341: the loop stores the username of every tool call
\* that has one, so the last of them stays
record_tool_usernames(chess_data, tool_calls) ==
    LET named == {i \in 1..Len(tool_calls) : DictHas(tool_calls[i].args, "username")}
    IN  IF named = {} THEN chess_data
        ELSE LET last == CHOOSE i \in named : \A j \in named : j <= i
             IN  DictSet(chess_data, "last_username",
                         DictGet(tool_calls[last].args, "username", <<>>))

\* the largest iteration_count with which _chess_agent still asks the model
max_iterations == 5

\* a bug: the iteration count never stops the chess agent
never_too_many(iteration_count) == FALSE

\* _chess_agent, line 275: the chess agent has been entered too often
too_many_iterations(iteration_count) == iteration_count > max_iterations

\* the query _chess_agent hands to chess_agent_with_tools.invoke
chess_llm_query(s) ==
    with_stored_username(extract_username(s.chess_data, Last(s.messages).content),
                         Last(s.messages).content)

\* whether _chess_agent calls chess_agent_with_tools.invoke
chess_agent_calls_llm(s) ==
    /\ ~too_many_iterations(s.iteration_count + 1)
    /\ ~asks_without_count(chess_llm_query(s))

\* _chess_agent: out is what chess_agent_with_tools.invoke does when it is called.
\* chess_data is the dictionary of the state itself, so what lines 290 and 341
\* store stays in the state on every path.
chess_agent(s, out) ==
    LET user_query == Last(s.messages).content
        iteration_count == s.iteration_count + 1
        chess_data == extract_username(s.chess_data, user_query)
    IN  IF too_many_iterations(iteration_count)
        THEN [s EXCEPT !.messages = @ \o <<AIMessage(loop_response)>>,
                       !.current_agent = "chess_agent",
                       !.iteration_count = iteration_count]
        ELSE IF asks_without_count(with_stored_username(chess_data, user_query))
        THEN [s EXCEPT !.messages = @ \o <<AIMessage(how_many_response)>>,
                       !.current_agent = "chess_agent",
                       !.chess_data = chess_data,
                       !.iteration_count = iteration_count]
        ELSE IF out.raised
        THEN [s EXCEPT !.messages = @ \o <<AIMessage(chess_fallback_response)>>,
                       !.current_agent = "chess_agent",
                       !.chess_data = chess_data]
        ELSE [s EXCEPT !.messages = @ \o <<out.value>>,
                       !.current_agent = "chess_agent",
                       !.chess_data = record_tool_usernames(chess_data, out.value.tool_calls),
                       !.iteration_count = iteration_count]

\* a bug: the chess agent always hands over to final_response
chess_agent_routing_no_tools(s) == "final_response"

\* _chess_agent_routing and the conditional edges of the chess agent
chess_agent_routing(s) ==
    IF Last(s.messages).tool_calls # <<>> THEN "tool_execution" ELSE "final_response"

\* the ToolNode: one ToolMessage for each tool call of the last message
tool_node(s) ==
    LET tool_calls == Last(s.messages).tool_calls
    IN  [s EXCEPT !.messages =
            @ \o [i \in 1..Len(tool_calls) |-> ToolMessage(ToolOutput(tool_calls[i]))]]

\* a bug: final_response answers again after a specialist
passes_through_never(s) == FALSE

\* a bug: only the answer of the RAG agent is passed through
passes_through_rag_only(s) ==
    /\ Last(s.messages).type = "ai"
    /\ s.current_agent = "rag_agent"

\* whether _final_response_agent passes the answer of a specialist through
passes_through(s) ==
    /\ Last(s.messages).type = "ai"
    /\ s.current_agent \in {"rag_agent", "chess_agent"}

\* _final_response_agent: out is what rag_agent_model.invoke does when it is called
final_response_agent(s, out) ==
    IF passes_through(s) THEN s
    ELSE IF out.raised
    THEN [s EXCEPT !.messages = @ \o <<AIMessage(final_fallback_response)>>,
                   !.current_agent = "final_response"]
    ELSE [s EXCEPT !.messages = @ \o <<AIMessage(out.value)>>,
                   !.current_agent = "final_response"]

(* --------------------------- process_query ---------------------------- *)

\* the conversation_state a caller passes: the one the last call returned, or none
CallerStates == {result.conversation_state, EmptyDict}

\* a bug: the query is compared as typed
is_greeting_exact(q) == q \in simple_greetings

\* query.lower().strip() in simple_greetings
is_greeting(q) == Strip(Lower(q)) \in simple_greetings

\* a bug: the placeholder key 'dummy' is taken for a key
invalid_key_missing_only(key) == key \in {"None", ""}

\* not self.openai_key or self.openai_key == "dummy"
invalid_key(key) == key \in {"None", "", "dummy"}

\* process_query, lines 469-477: a greeting is answered at once
ProcessQueryGreeting ==
    /\ pc = "idle" /\ turn < MaxTurns
    /\ \E q \in Queries, key \in Keys, conv \in CallerStates :
          /\ is_greeting(q)
          /\ query' = q
          /\ conversation_state' = conv
          /\ run' = [NoRun EXCEPT !.key = key]
          /\ result' = [ response |-> query_greeting_response,
                         agent_used |-> <<"s", "u", "p", "e", "r", "v", "i", "s", "o", "r">>,
                         rag_sources |-> 0,
                         conversation_state |-> conv ]
    /\ turn' = turn + 1
    /\ UNCHANGED <<pc, self, state, pm_result, emb, api_vars>>

\* process_query, lines 479-486 and 541-548: the key is stored, found invalid,
\* and the ValueError becomes the error reply
ProcessQueryInvalidKey ==
    /\ pc = "idle" /\ turn < MaxTurns
    /\ \E q \in Queries, key \in Keys, conv \in CallerStates :
          /\ ~is_greeting(q)
          /\ invalid_key(key)
          /\ query' = q
          /\ conversation_state' = conv
          /\ self' = [self EXCEPT !.openai_key = key]
          /\ run' = [NoRun EXCEPT !.key = key]
          /\ result' = [ response |-> error_response(key_error),
                         agent_used |-> <<"e", "r", "r", "o", "r">>,
                         rag_sources |-> 0,
                         conversation_state |-> conv ]
    /\ turn' = turn + 1
    /\ UNCHANGED <<pc, state, pm_result, emb, api_vars>>

\* process_query, lines 479-517, and process_message, lines 420-438: the models and
\* the graph are built anew and the graph run starts at the supervisor
ProcessQueryRun ==
    /\ pc = "idle" /\ turn < MaxTurns
    /\ \E q \in Queries, key \in Keys, conv \in CallerStates :
          /\ ~is_greeting(q)
          /\ ~invalid_key(key)
          /\ query' = q
          /\ conversation_state' = conv
          /\ self' = [openai_key |-> key, supervisor_model |-> "ChatOpenAI",
                      graph |-> "compiled"]
          /\ run' = [NoRun EXCEPT !.key = key, !.models_built = 1]
          /\ state' = initial_state(q, conv)
    /\ pc' = "supervisor"
    /\ turn' = turn + 1
    /\ result' = NoResult
    /\ pm_result' = NoPmResult
    /\ UNCHANGED <<emb, api_vars>>

\* the supersteps of the graph run so far
steps == Len(run.trace)

\* what a model's invoke does: it raises, or it returns one of values
Outcomes(values) == {Raised} \cup {Returned(v) : v \in values}

\* the supervisor node and its routing
SupervisorAgent ==
    /\ pc = "supervisor" /\ steps < recursion_limit
    /\ \E out \in Outcomes(SupervisorReplies) :
          /\ state' = supervisor_agent(state, out)
          /\ run' = [run EXCEPT !.trace = Append(@, "supervisor"),
                                !.raised = IF out.raised THEN @ \cup {"supervisor"} ELSE @,
                                !.supervisor_reply = out,
                                !.llm_calls = @ + 1]
    /\ pc' = supervisor_routing(state')
    /\ UNCHANGED <<self, query, conversation_state, result, pm_result, turn, emb, api_vars>>

\* the rag_agent node and its edge to final_response
RagAgent ==
    /\ pc = "rag_agent" /\ steps < recursion_limit
    /\ \E hits \in 0..MaxChunks :
       \E out \in IF rag_agent_calls_llm(state, hits) THEN Outcomes({llm_answer}) ELSE {Raised} :
          /\ state' = rag_agent(state, hits, out)
          /\ run' = [run EXCEPT !.trace = Append(@, "rag_agent"),
                                !.raised = IF \/ get_context_for_query(hits).raised
                                              \/ (rag_agent_calls_llm(state, hits) /\ out.raised)
                                           THEN @ \cup {"rag_agent"} ELSE @,
                                !.kb_hits = hits,
                                !.llm_calls = IF rag_agent_calls_llm(state, hits)
                                              THEN @ + 1 ELSE @]
    /\ pc' = "final_response"
    /\ UNCHANGED <<self, query, conversation_state, result, pm_result, turn, emb, api_vars>>

\* the chess_agent node and its routing
ChessAgent ==
    /\ pc = "chess_agent" /\ steps < recursion_limit
    /\ \E out \in IF chess_agent_calls_llm(state) THEN Outcomes(ChessReplies) ELSE {Raised} :
          /\ state' = chess_agent(state, out)
          /\ run' = [run EXCEPT !.trace = Append(@, "chess_agent"),
                                !.raised = IF chess_agent_calls_llm(state) /\ out.raised
                                           THEN @ \cup {"chess_agent"} ELSE @,
                                !.llm_calls = IF chess_agent_calls_llm(state)
                                              THEN @ + 1 ELSE @]
    /\ pc' = chess_agent_routing(state')
    /\ UNCHANGED <<self, query, conversation_state, result, pm_result, turn, emb, api_vars>>

\* the tool_execution node and its edge to chess_agent
ToolExecution ==
    /\ pc = "tool_execution" /\ steps < recursion_limit
    /\ state' = tool_node(state)
    /\ run' = [run EXCEPT !.trace = Append(@, "tool_execution")]
    /\ pc' = "chess_agent"
    /\ UNCHANGED <<self, query, conversation_state, result, pm_result, turn, emb, api_vars>>

\* the final_response node and its edge to END
FinalResponseAgent ==
    /\ pc = "final_response" /\ steps < recursion_limit
    /\ \E out \in IF passes_through(state) THEN {Raised} ELSE Outcomes({llm_answer}) :
          /\ state' = final_response_agent(state, out)
          /\ run' = [run EXCEPT !.trace = Append(@, "final_response"),
                                !.raised = IF ~passes_through(state) /\ out.raised
                                           THEN @ \cup {"final_response"} ELSE @,
                                !.llm_calls = IF passes_through(state) THEN @ ELSE @ + 1]
    /\ pc' = "END"
    /\ UNCHANGED <<self, query, conversation_state, result, pm_result, turn, emb, api_vars>>

\* a bug: the state returned keeps all the messages
process_message_result_uncapped(final_state, completed, conv) ==
    IF completed
    THEN [ response |-> Last(final_state.messages).content,
           state |-> { <<"current_agent", final_state.current_agent>>,
                       <<"supervisor_decision", final_state.supervisor_decision>>,
                       <<"rag_context", final_state.rag_context>>,
                       <<"chess_data", final_state.chess_data>>,
                       <<"iteration_count", final_state.iteration_count>>,
                       <<"messages", final_state.messages>> },
           success |-> TRUE ]
    ELSE [ response |-> process_message_apology,
           state |-> conv,
           success |-> FALSE ]

\* process_message, lines 440-464: what it returns for the graph run, which ended
\* at END or hit the recursion limit
process_message_result(final_state, completed, conv) ==
    IF completed
    THEN [ response |-> Last(final_state.messages).content,
           state |-> { <<"current_agent", final_state.current_agent>>,
                       <<"supervisor_decision", final_state.supervisor_decision>>,
                       <<"rag_context", final_state.rag_context>>,
                       <<"chess_data", final_state.chess_data>>,
                       <<"iteration_count", final_state.iteration_count>>,
                       <<"messages", LastN(final_state.messages, 10)>> },
           success |-> TRUE ]
    ELSE [ response |-> process_message_apology,
           state |-> conv,
           success |-> FALSE ]

\* a bug: the decision is returned as the tag without the renaming
agent_used_raw(pm_state) ==
    Lower(DictGet(pm_state, "supervisor_decision", <<"u", "n", "k", "n", "o", "w", "n">>))

\* process_query, lines 519-526: the routing tag
agent_used_of(pm_state) ==
    LET agent_used == Lower(DictGet(pm_state, "supervisor_decision", <<"u", "n", "k", "n", "o", "w", "n">>))
    IN  IF agent_used = <<"f", "i", "n", "a", "l", "_", "r", "e", "s", "p", "o", "n", "s", "e">> THEN <<"s", "u", "p", "e", "r", "v", "i", "s", "o", "r">>
        ELSE IF agent_used = <<"r", "a", "g", "_", "a", "g", "e", "n", "t">> THEN <<"r", "a", "g", " ", "a", "g", "e", "n", "t">>
        ELSE IF agent_used = <<"c", "h", "e", "s", "s", "_", "a", "g", "e", "n", "t">> THEN <<"c", "h", "e", "s", "s", " ", "a", "g", "e", "n", "t">>
        ELSE agent_used

\* process_query, line 537: the source count
rag_sources_of(pm_state) ==
    DictGet(DictGet(pm_state, "rag_context", EmptyDict), "sources_count", 0)

\* process_query, lines 528-539: what it returns for the result of process_message
process_query_result(pm, conv) ==
    [ response |-> pm.response,
      agent_used |-> agent_used_of(pm.state),
      rag_sources |-> rag_sources_of(pm.state),
      conversation_state |-> DictMerge(conv, pm.state) ]

\* process_message returns and process_query returns
ProcessQueryReturn ==
    /\ \/ pc = "END"
       \/ pc \notin {"idle", "END"} /\ steps >= recursion_limit
    /\ pm_result' = process_message_result(state, pc = "END", conversation_state)
    /\ result' = process_query_result(pm_result', conversation_state)
    /\ pc' = "idle"
    /\ UNCHANGED <<self, query, conversation_state, state, run, turn, emb, api_vars>>

GraphNext ==
    \/ ProcessQueryGreeting
    \/ ProcessQueryInvalidKey
    \/ ProcessQueryRun
    \/ SupervisorAgent
    \/ RagAgent
    \/ ChessAgent
    \/ ToolExecution
    \/ FinalResponseAgent
    \/ ProcessQueryReturn

Next == GraphNext

Spec == Init /\ [][Next]_vars

(* ---------------- async_get_embeddings_with_backoff ------------------- *)

max_retries == 3

\* the lists of texts callers embed
TextLists == {<<"e4">>, <<"e4", "d4">>}

\* the embeddings the API answers with, one vector for each text
Embeddings(list_of_text) ==
    { [i \in 1..Len(list_of_text) |-> v] : v \in {"v1", "v2"} }

\* the exceptions the embeddings API raises
ApiErrors == {"RateLimitError", "APIConnectionError"}

RECURSIVE Pow2(_)
Pow2(n) == IF n = 0 THEN 1 ELSE 2 * Pow2(n - 1)

\* a bug: the wait grows linearly
wait_time_linear(attempt) == 2 * attempt

\* wait_time = 2 ** attempt
wait_time(attempt) == Pow2(attempt)

\* a bug: no attempt is the last one, every failure is followed by a sleep
is_last_attempt_never(attempt) == FALSE

\* if attempt == max_retries - 1: the exception is raised again
is_last_attempt(attempt) == attempt = max_retries - 1

\* async_get_embeddings: _ensure_client raises without a key, and the API call
\* raises or returns
AttemptOutcomes(has_key, list_of_text) ==
    IF ~has_key THEN {[raised |-> TRUE, value |-> "ValueError"]}
    ELSE {[raised |-> TRUE, value |-> e] : e \in ApiErrors}
         \cup {Returned(v) : v \in Embeddings(list_of_text)}

\* a caller awaits async_get_embeddings_with_backoff(list_of_text)
EmbedCall ==
    /\ emb.pc \in {"idle", "done"} /\ emb.calls < MaxEmbedCalls
    /\ \E has_key \in BOOLEAN, list_of_text \in TextLists :
          emb' = [ pc |-> "try", attempt |-> 0, has_key |-> has_key,
                   list_of_text |-> list_of_text, outcomes |-> <<>>, sleeps |-> <<>>,
                   returned |-> [raised |-> FALSE, value |-> <<>>],
                   calls |-> emb.calls + 1 ]
    /\ UNCHANGED <<graph_vars, api_vars>>

\* one pass of the loop body up to its await: the attempt, and on an exception
\* either the raise or the choice of the wait
EmbedAttempt ==
    /\ emb.pc = "try" /\ emb.attempt < max_retries
    /\ \E out \in AttemptOutcomes(emb.has_key, emb.list_of_text) :
          emb' = IF ~out.raised
                 THEN [emb EXCEPT !.outcomes = Append(@, out), !.pc = "done",
                                  !.returned = out]
                 ELSE IF is_last_attempt(emb.attempt)
                 THEN [emb EXCEPT !.outcomes = Append(@, out), !.pc = "done",
                                  !.returned = out]
                 ELSE [emb EXCEPT !.outcomes = Append(@, out), !.pc = "sleep"]
    /\ UNCHANGED <<graph_vars, api_vars>>

\* asyncio.sleep(wait_time) returns and the loop goes on; after the last pass
\* the function returns []
EmbedSleep ==
    /\ emb.pc = "sleep"
    /\ emb' = IF emb.attempt + 1 < max_retries
              THEN [emb EXCEPT !.sleeps = Append(@, wait_time(emb.attempt)),
                               !.attempt = @ + 1, !.pc = "try"]
              ELSE [emb EXCEPT !.sleeps = Append(@, wait_time(emb.attempt)),
                               !.attempt = @ + 1, !.pc = "done",
                               !.returned = Returned(<<>>)]
    /\ UNCHANGED <<graph_vars, api_vars>>

EmbedNext == EmbedCall \/ EmbedAttempt \/ EmbedSleep

EmbedSpec == Init /\ [][EmbedNext]_vars

(* ----------------------- the knowledge endpoints ---------------------- *)

\* the page size of the scrolls of list and delete: 100 in the code
ScrollLimit == 2

\* the chunks a file splits into, at most
MaxFileChunks == 3

\* the requests to the knowledge endpoints
MaxRequests == 3

Filenames == {"a.txt", "b.txt"}

allowed_types == {"application/pdf", "text/plain", "image/jpeg", "image/png", "image/gif"}

ContentTypes == {"text/plain", "application/zip"}

\* an UploadFile: its name, its content type, the hash of its content and the
\* number of non-empty chunks its text splits into: none (it holds no text), one,
\* or more than a scroll page; a file of a type that is not allowed is not read
UploadFiles ==
    [filename : Filenames, content_type : {"text/plain"}, file_hash : {"h1", "h2"},
     chunks : {0, 1, MaxFileChunks}]
    \cup [filename : Filenames, content_type : ContentTypes \ allowed_types,
          file_hash : {"h1"}, chunks : {1}]

\* what the calls of a step to Qdrant and to the embedding API do
ExternalCalls == {"ok", "raises"}

\* offset = None
NoOffset == 0

\* client.scroll(collection_name, scroll_filter, limit, offset): the points whose
\* filename is in names, in the order of their ids from offset on; a page of at
\* most limit of them and the id of the next one
scroll(points, names, limit, offset) ==
    LET from == {p \in points : p.filename \in names /\ p.id >= offset}
        page == {p \in from : Cardinality({q \in from : q.id < p.id}) < limit}
        rest == from \ page
    IN  [points |-> page,
         next_offset |-> IF rest = {} THEN NoOffset
                         ELSE CHOOSE i \in {p.id : p \in rest} :
                                  \A j \in {p.id : p \in rest} : i <= j]

\* a bug: the loop stops after the first page
scroll_first_page(points, names, offset) == scroll(points, names, ScrollLimit, offset).points

\* the while-loops of list and delete: the points of all the pages from offset on
RECURSIVE scroll_all(_, _, _)
scroll_all(points, names, offset) ==
    LET r == scroll(points, names, ScrollLimit, offset)
    IN  IF r.points = {} THEN {}
        ELSE IF r.next_offset = NoOffset THEN r.points
        ELSE r.points \cup scroll_all(points, names, r.next_offset)

\* a bug: the upload does not look for the file
existing_files_unchecked(points, filename) == {}

\* upload_chess_knowledge, lines 48-61: the first point with the filename
existing_files(points, filename) == scroll(points, {filename}, 1, NoOffset).points

\* the handlers that raise an HTTPException again as it is
reraises_http == {"upload", "delete"}

\* the status the client gets when exc leaves the try block of the handler
client_status(endpoint, exc) ==
    IF exc.kind = "HTTPException" /\ endpoint \in reraises_http THEN exc.status ELSE 500

\* the response to a request that ended with an exception
ErrorResponse(endpoint, filename, file, exc) ==
    [NoHttp EXCEPT !.responses = http.responses + 1, !.endpoint = endpoint,
                   !.filename = filename, !.file = file, !.raised = exc,
                   !.status = client_status(endpoint, exc)]

\* the response to a request that ended normally
OkResponse(endpoint, filename, file, status_code) ==
    [NoHttp EXCEPT !.responses = http.responses + 1, !.endpoint = endpoint,
                   !.filename = filename, !.file = file, !.status = status_code]

\* a request arrives
Arrives == qdrant.initialized /\ http.responses + Len(pending) < MaxRequests

\* ChessQdrantClient._initialize_client at import: a client when the credentials
\* are set and the connection works
InitializeClient ==
    /\ ~qdrant.initialized
    /\ \E connected \in BOOLEAN :
          qdrant' = [qdrant EXCEPT !.initialized = TRUE,
                                   !.client = IF connected THEN "QdrantClient" ELSE "None"]
    /\ UNCHANGED <<graph_vars, emb, pending, http, pgn, retriever>>

\* upload_chess_knowledge, lines 24-72, up to the await of file.read()
UploadChessKnowledge ==
    /\ Arrives
    /\ \E file \in UploadFiles, ext \in ExternalCalls :
          IF file.content_type \notin allowed_types
          THEN /\ http' = ErrorResponse("upload", file.filename, file, HTTPException(400))
               /\ UNCHANGED pending
          ELSE IF qdrant.client # "None" /\ ext = "raises"
          THEN /\ http' = ErrorResponse("upload", file.filename, file, OtherException)
               /\ UNCHANGED pending
          ELSE IF qdrant.client # "None" /\ existing_files(qdrant.points, file.filename) # {}
          THEN /\ http' = [OkResponse("upload", file.filename, file, 201) EXCEPT !.exists = TRUE]
               /\ UNCHANGED pending
          ELSE /\ pending' = Append(pending, [handler |-> "upload", filename |-> file.filename,
                                              file |-> file])
               /\ UNCHANGED http
    /\ UNCHANGED <<graph_vars, emb, qdrant, pgn, retriever>>

\* the points upload_to_qdrant builds for the chunks of file, lines 135-150
new_points(file, next_id) ==
    { [id |-> next_id + i, filename |-> file.filename, file_hash |-> file.file_hash,
       chunk_index |-> i] : i \in 0..(file.chunks - 1) }

\* upload_to_qdrant, lines 99-179: the exception it raises, NoException when it
\* stored the points
upload_to_qdrant_raises(file, client, ext) ==
    IF file.chunks = 0 THEN HTTPException(400)
    ELSE IF ext = "raises" \/ client = "None" THEN HTTPException(500)
    ELSE NoException

\* file.read() returns: upload_to_qdrant, and the rest of the handler that awaits
\* it (upload_chess_knowledge lines 72-88, overwrite_chess_knowledge_file lines 283-295)
UploadToQdrant ==
    \E i \in 1..Len(pending), ext \in ExternalCalls :
       LET p == pending[i]
           exc == upload_to_qdrant_raises(p.file, qdrant.client, ext)
       IN  /\ pending' = [j \in 1..(Len(pending) - 1) |-> IF j < i THEN pending[j] ELSE pending[j + 1]]
           /\ IF exc # NoException
              THEN /\ http' = ErrorResponse(p.handler, p.filename, p.file, exc)
                   /\ UNCHANGED qdrant
              ELSE /\ qdrant' = [qdrant EXCEPT !.points = @ \cup new_points(p.file, qdrant.next_id),
                                               !.next_id = @ + p.file.chunks]
                   /\ http' = [OkResponse(p.handler, p.filename, p.file,
                                          IF p.handler = "upload" THEN 201 ELSE 200)
                                  EXCEPT !.chunks_created = p.file.chunks]
           /\ UNCHANGED <<graph_vars, emb, pgn, retriever>>

\* list_chess_knowledge_files, lines 145-183: the files and their chunk counts
files_map(points) ==
    LET seen == scroll_all(points, Filenames, NoOffset)
    IN  { [filename |-> f, chunk_count |-> Cardinality({p \in seen : p.filename = f})] :
              f \in {p.filename : p \in seen} }

\* list_chess_knowledge_files
ListChessKnowledgeFiles ==
    /\ Arrives
    /\ \E ext \in ExternalCalls :
          http' = IF qdrant.client = "None"
                  THEN ErrorResponse("list", "", NoFile, HTTPException(503))
                  ELSE IF ext = "raises"
                  THEN ErrorResponse("list", "", NoFile, OtherException)
                  ELSE [OkResponse("list", "", NoFile, 200) EXCEPT !.files = files_map(qdrant.points)]
    /\ UNCHANGED <<graph_vars, emb, qdrant, pending, pgn, retriever>>

\* delete_chess_knowledge_file, lines 211-239: the ids of the points to delete
points_to_delete(points, filename) == {p.id : p \in scroll_all(points, {filename}, NoOffset)}

\* delete_chess_knowledge_file, lines 200-268: the exception that leaves it, the
\* points that stay and the number it reports
delete_chess_knowledge_file(q, filename, ext) ==
    LET ids == points_to_delete(q.points, filename)
    IN  IF q.client = "None"
        THEN [raised |-> HTTPException(503), points |-> q.points, chunks_deleted |-> 0]
        ELSE IF ext = "raises"
        THEN [raised |-> OtherException, points |-> q.points, chunks_deleted |-> 0]
        ELSE IF ids = {}
        THEN [raised |-> HTTPException(404), points |-> q.points, chunks_deleted |-> 0]
        ELSE [raised |-> NoException, points |-> {p \in q.points : p.id \notin ids},
              chunks_deleted |-> Cardinality(ids)]

\* DELETE /files/{filename}
DeleteChessKnowledgeFile ==
    /\ Arrives
    /\ \E filename \in Filenames, ext \in ExternalCalls :
          LET d == delete_chess_knowledge_file(qdrant, filename, ext)
          IN  /\ qdrant' = [qdrant EXCEPT !.points = d.points]
              /\ http' = IF d.raised # NoException
                         THEN ErrorResponse("delete", filename, NoFile, d.raised)
                         ELSE [OkResponse("delete", filename, NoFile, 200)
                                  EXCEPT !.chunks_deleted = d.chunks_deleted]
    /\ UNCHANGED <<graph_vars, emb, pending, pgn, retriever>>

\* what delete_chess_knowledge_file raises to the handler that called it: its own
\* except clauses turn any other exception into an HTTPException 500
raised_by_delete(exc) == IF exc.kind = "Exception" THEN HTTPException(500) ELSE exc

\* overwrite_chess_knowledge_file, lines 278-283, up to the await of file.read()
OverwriteChessKnowledgeFile ==
    /\ Arrives
    /\ \E filename \in Filenames, file \in UploadFiles, ext \in ExternalCalls :
          LET d == delete_chess_knowledge_file(qdrant, filename, ext)
          IN  IF d.raised # NoException
              THEN /\ http' = ErrorResponse("overwrite", filename, file, raised_by_delete(d.raised))
                   /\ UNCHANGED <<qdrant, pending>>
              ELSE /\ qdrant' = [qdrant EXCEPT !.points = d.points]
                   /\ pending' = Append(pending, [handler |-> "overwrite", filename |-> filename,
                                                  file |-> file])
                   /\ UNCHANGED http
    /\ UNCHANGED <<graph_vars, emb, pgn, retriever>>

KnowledgeNext ==
    \/ InitializeClient
    \/ UploadChessKnowledge
    \/ UploadToQdrant
    \/ ListChessKnowledgeFiles
    \/ DeleteChessKnowledgeFile
    \/ OverwriteChessKnowledgeFile

KnowledgeSpec == Init /\ [][KnowledgeNext]_vars

(* -------------------------- POST /pgn --------------------------------- *)

\* the calls of the endpoint
MaxPgnCalls == 2

\* request.pgn: empty, blank, and a game
PgnTexts == { <<>>, <<" ", "\n", " ">>, <<"1", ".", " ", "e", "4", " ", "e", "5">> }

\* request.qdrant_api_key: absent, or a key
QdrantApiKeys == {"None", "qk"}

\* what agents.graph.analyze_pgn_game returns for the request when it is called
AgentResults ==
    { [success |-> TRUE, analysis |-> <<"(the agent's analysis)">>],
      [success |-> FALSE, analysis |-> <<>>] }

\* what the storing does when it is called: create_qdrant_client raises,
\* ensure_chess_collection_exists returns False, or both work
StoreOutcomes == {"client_raises", "collection_fails", "ok"}

\* the function the name analyze_pgn_game is bound to in routers.chess_analysis:
\* line 12 imports the one of agents.graph, line 90 defines the endpoint
analyze_pgn_game_binding == "routers.chess_analysis.analyze_pgn_game"

\* the call of lines 112-116, analyze_pgn_game(pgn_content=, openai_key=,
\* langsmith_key=): the endpoint takes one parameter, request, so the call raises
\* a TypeError; the function of agents.graph returns its result
call_analyze_pgn_game(agent) ==
    IF analyze_pgn_game_binding = "agents.graph.analyze_pgn_game"
    THEN Returned(agent)
    ELSE Raised

\* _store_pgn_in_qdrant, lines 239-257: what it returns
store_pgn_in_qdrant(store) ==
    IF store = "client_raises" THEN "False"
    ELSE IF store = "collection_fails" THEN "False"
    ELSE "True"

\* whether _store_pgn_in_qdrant put the game into the collection: lines 248-253
\* store nothing
game_stored(store) == FALSE

\* is_qdrant_available() or bool(request.qdrant_api_key)
qdrant_available_of(request, env_key) == env_key \/ request.qdrant_api_key \notin {"None", ""}

\* lines 126-139: vector_storage_result
vector_storage_result(request, env_key, store) ==
    IF qdrant_available_of(request, env_key) THEN store_pgn_in_qdrant(store) ELSE "None"

\* the endpoint analyze_pgn_game, lines 101-164
pgn_response(calls, request, env_key, agent, store) ==
    LET seen == [NoPgn EXCEPT !.calls = calls, !.request = request, !.env_key = env_key,
                              !.agent = agent, !.store = store]
        got == call_analyze_pgn_game(agent)
    IN  IF Strip(request.pgn) = <<>> THEN [seen EXCEPT !.status = 400]
        ELSE IF got.raised THEN [seen EXCEPT !.status = 500]
        ELSE IF ~got.value.success THEN [seen EXCEPT !.status = 500, !.agent_invoked = TRUE]
        ELSE [seen EXCEPT !.status = 200,
                          !.agent_invoked = TRUE,
                          !.stored = qdrant_available_of(request, env_key) /\ game_stored(store),
                          !.success = TRUE,
                          !.vector_storage = vector_storage_result(request, env_key, store) # "None",
                          !.qdrant_available = qdrant_available_of(request, env_key),
                          !.analysis_summary = got.value.analysis]

\* POST /pgn
AnalyzePgnGame ==
    /\ pgn.calls < MaxPgnCalls
    /\ \E text \in PgnTexts, key \in QdrantApiKeys, env_key \in BOOLEAN,
          agent \in AgentResults, store \in StoreOutcomes :
          pgn' = pgn_response(pgn.calls + 1, [pgn |-> text, qdrant_api_key |-> key],
                              env_key, agent, store)
    /\ UNCHANGED <<graph_vars, emb, qdrant, pending, http, retriever>>

PgnNext == AnalyzePgnGame

PgnSpec == Init /\ [][PgnNext]_vars

(* ----------------------- retrieve_documents --------------------------- *)

\* the calls of retrieve_documents
MaxRetrieveCalls == 2

\* the values of k, 1..MaxK: 5 by default in the code
MaxK == 2

\* the search terms expand_chess_query returns, at most: any number in the code
MaxQueries == 2

\* score_threshold=0.5 of the search, in tenths
score_threshold == 5

\* the cosine similarity of a point to a search term, in tenths: one value below
\* the threshold and three above
Similarities == {4, 6, 7, 8}

\* payload['content'] of the points of the chess_knowledge collection: three
\* passages, a second point with the text of the first, and a point without text
Payloads == <<"A", "B", "C", "A", "">>

RetrievalPoints == 1..Len(Payloads)

\* what _ensure_clients does: EmbeddingModel or get_qdrant_client raises, or
\* get_qdrant_client returns None or a client
EnsureOutcomes == {"raises", "None", "QdrantClient"}

\* Document(page_content=content, metadata={'score': ..., 'query': ...})
Document(content, score, expanded_query) ==
    [page_content |-> content, score |-> score, query |-> expanded_query]

\* qdrant_client.search(query_vector, limit, score_threshold): the lists it may
\* return for the similarities sim of the points. They hold the min(limit, n) best
\* of the n points at or above the threshold, best first; the order among equal
\* scores is the database's.
search(sim, limit) ==
    LET above == {p \in RetrievalPoints : sim[p] >= score_threshold}
        size == IF Cardinality(above) < limit THEN Cardinality(above) ELSE limit
    IN  { [i \in 1..size |-> [content |-> Payloads[h[i]], score |-> sim[h[i]]]] :
            h \in { g \in [1..size -> above] :
                      /\ \A i, j \in 1..size : i < j => g[i] # g[j] /\ sim[g[i]] >= sim[g[j]]
                      /\ \A p \in above : (\A i \in 1..size : g[i] # p)
                                             => \A i \in 1..size : sim[p] <= sim[g[i]] } }

\* seen_content: it grows with all_documents, lines 117 and 126
seen_content(all_documents) ==
    {all_documents[i].page_content : i \in 1..Len(all_documents)}

\* retrieve_documents, lines 114-126: the results of one search are appended,
\* except those without content and those whose content was seen
RECURSIVE add_documents(_, _, _)
add_documents(all_documents, search_results, expanded_query) ==
    IF search_results = <<>> THEN all_documents
    ELSE LET hit == Head(search_results)
         IN  IF hit.content # "" /\ hit.content \notin seen_content(all_documents)
             THEN add_documents(Append(all_documents,
                                       Document(hit.content, hit.score, expanded_query)),
                                Tail(search_results), expanded_query)
             ELSE add_documents(all_documents, Tail(search_results), expanded_query)

\* all_documents.sort(key=score, reverse=True): a stable sort, so documents of
\* equal score keep their order
sort_by_score(all_documents) ==
    LET n == Len(all_documents)
        rank(i) == 1 + Cardinality({j \in 1..n :
                        \/ all_documents[j].score > all_documents[i].score
                        \/ all_documents[j].score = all_documents[i].score /\ j < i})
    IN  [r \in 1..n |-> all_documents[CHOOSE i \in 1..n : rank(i) = r]]

\* all_documents[:k]
top_k(all_documents, k) ==
    SubSeq(all_documents, 1, IF Len(all_documents) < k THEN Len(all_documents) ELSE k)

\* retrieve_documents, lines 86-97: the clients are ensured; without a Qdrant
\* client, or when _ensure_clients raises, the call returns []; otherwise the
\* query is expanded into n search terms (expand_chess_query never raises)
RetrieveDocuments ==
    /\ retriever.pc = "idle" /\ retriever.calls < MaxRetrieveCalls
    /\ \E k \in 1..MaxK, ensure \in EnsureOutcomes, n \in 0..MaxQueries :
          LET qdrant_client == IF retriever.qdrant_client # "None" \/ ensure = "raises"
                               THEN retriever.qdrant_client ELSE ensure
              call == [NoRetriever EXCEPT !.calls = retriever.calls + 1,
                                          !.qdrant_client = qdrant_client,
                                          !.k = k]
          IN  retriever' = IF ensure = "raises" \/ qdrant_client = "None"
                           THEN call
                           ELSE [call EXCEPT !.pc = "search", !.expanded_queries = n]
    /\ UNCHANGED <<graph_vars, emb, qdrant, pending, http, pgn>>

\* retrieve_documents, lines 100-130: one pass of the loop. The embedding or the
\* search raises and the loop continues, or the results are appended.
SearchExpandedQuery ==
    /\ retriever.pc = "search" /\ retriever.searched < retriever.expanded_queries
    /\ \E out \in {Raised} \cup
                  {Returned(r) : r \in UNION {search(sim, retriever.k) :
                                                 sim \in [RetrievalPoints -> Similarities]}} :
          retriever' = [retriever EXCEPT
                           !.searched = @ + 1,
                           !.search_results = Append(@, out),
                           !.all_documents = IF out.raised THEN @
                                             ELSE add_documents(@, out.value,
                                                                retriever.searched + 1)]
    /\ UNCHANGED <<graph_vars, emb, qdrant, pending, http, pgn>>

\* retrieve_documents, lines 132-134: the documents are sorted by score and the
\* first k are returned
ReturnDocuments ==
    /\ retriever.pc = "search" /\ retriever.searched = retriever.expanded_queries
    /\ retriever' = [retriever EXCEPT
                        !.pc = "idle",
                        !.returned = Returned(top_k(sort_by_score(retriever.all_documents),
                                                    retriever.k))]
    /\ UNCHANGED <<graph_vars, emb, qdrant, pending, http, pgn>>

RetrieveNext == RetrieveDocuments \/ SearchExpandedQuery \/ ReturnDocuments

RetrieveSpec == Init /\ [][RetrieveNext]_vars

(* ------------------------------ claims -------------------------------- *)

\* a call of process_query has returned
HasReturned == pc = "idle" /\ turn > 0

\* the nodes the graph run entered
Entered(node) == \E i \in 1..Len(run.trace) : run.trace[i] = node

\* how often the graph run entered node
Visits(node) == Cardinality({i \in 1..Len(run.trace) : run.trace[i] = node})

\* the messages the graph run of this call appended after the caller's human
\* message; none when the call ran no graph
RunMessages ==
    IF run.trace = <<>> THEN <<>>
    ELSE SubSeq(state.messages, Len(initial_state(query, conversation_state).messages) + 1,
                Len(state.messages))

\* C1: a call of process_query whose query, lowercased and stripped, is one of the
\* seven greetings returns the fixed greeting reply with agent_used 'supervisor'
\* and rag_sources 0, builds no model, invokes no LLM and runs no graph node,
\* whatever the OpenAI key is.
C1_GreetingShortCircuits ==
    (HasReturned /\ Strip(Lower(query)) \in simple_greetings) =>
        /\ result.response = query_greeting_response
        /\ result.agent_used = <<"s", "u", "p", "e", "r", "v", "i", "s", "o", "r">>
        /\ result.rag_sources = 0
        /\ result.conversation_state = conversation_state
        /\ run.models_built = 0
        /\ run.llm_calls = 0
        /\ run.trace = <<>>

\* a greeting typed with capitals and blanks was answered under the key 'dummy'
C1_Witness ==
    /\ HasReturned
    /\ query = <<" ", "H", "i", " ">>
    /\ run.key = "dummy"
    /\ result.response = query_greeting_response

\* C2: a supervisor reply whose stripped, upper-cased text is none of the four
\* labels is recorded as FINAL_RESPONSE and routed to final_response; the four
\* labels are routed to rag_agent, chess_agent, final_response and END.
C2_SupervisorFallback ==
    (pc # "idle" /\ run.trace = <<"supervisor">> /\ ~run.supervisor_reply.raised) =>
        LET label == Upper(Strip(run.supervisor_reply.value))
        IN  /\ label \notin {<<"R", "A", "G", "_", "A", "G", "E", "N", "T">>, <<"C", "H", "E", "S", "S", "_", "A", "G", "E", "N", "T">>, <<"F", "I", "N", "A", "L", "_", "R", "E", "S", "P", "O", "N", "S", "E">>, <<"E", "N", "D">>}
                 => /\ state.supervisor_decision = <<"F", "I", "N", "A", "L", "_", "R", "E", "S", "P", "O", "N", "S", "E">>
                    /\ pc = "final_response"
            /\ label = <<"R", "A", "G", "_", "A", "G", "E", "N", "T">> => pc = "rag_agent"
            /\ label = <<"C", "H", "E", "S", "S", "_", "A", "G", "E", "N", "T">> => pc = "chess_agent"
            /\ label = <<"F", "I", "N", "A", "L", "_", "R", "E", "S", "P", "O", "N", "S", "E">> => pc = "final_response"
            /\ label = <<"E", "N", "D">> => pc = "END"

\* the supervisor model answered 'RAG AGENT', which is no label
C2_Witness ==
    /\ run.trace = <<"supervisor">>
    /\ ~run.supervisor_reply.raised
    /\ run.supervisor_reply.value = <<"R", "A", "G", " ", "A", "G", "E", "N", "T">>
    /\ pc = "final_response"

\* C3: on the RAG route, when the knowledge base holds no passage for a query that
\* is no greeting, the reply is the fixed "I don't have specific information"
\* text, the RAG model is not invoked, and that reply is what the caller gets.
C3_NoKnowledgeReply ==
    (HasReturned /\ Entered("rag_agent") /\ run.kb_hits = 0) =>
        /\ result.response = general_response(query)
        /\ run.llm_calls = 1

\* the chess agent asked for a tool call without the username
MissingArgument(message) ==
    /\ message.type = "ai"
    /\ \E i \in 1..Len(message.tool_calls) : ~DictHas(message.tool_calls[i].args, "username")

\* C4 (the call): after a graph run in which the chess model asked for a tool call
\* without its required argument, process_query has returned a response text and
\* process_message reported success.
C4_Returns ==
    (HasReturned /\ \E i \in 1..Len(RunMessages) : MissingArgument(RunMessages[i])) =>
        /\ pm_result.success
        /\ result.response # <<>>
        /\ result.response = Last(state.messages).content
        /\ Last(state.messages).type = "ai"

\* C4 (the step): a chess_agent step whose model reply asks only for tool calls
\* without a username leaves in chess_data what the text of the query put there.
C4_Step ==
    (/\ pc = "chess_agent" /\ pc' = "tool_execution"
     /\ \A i \in 1..Len(Last(state'.messages).tool_calls) :
            ~DictHas(Last(state'.messages).tool_calls[i].args, "username"))
    => state'.chess_data = extract_username(state.chess_data, Last(state.messages).content)

FailedAttempts == {i \in 1..Len(emb.outcomes) : emb.outcomes[i].raised}

\* C5: one call makes at most three attempts; the waits between attempts are 1 s
\* after the first failure and 2 s after the second; nothing is awaited after the
\* third; the first attempt that succeeds ends the call.
C5_BackoffSchedule ==
    /\ Len(emb.outcomes) <= 3
    /\ Len(emb.sleeps) <= 2
    /\ \A i \in 1..Len(emb.sleeps) : emb.sleeps[i] = IF i = 1 THEN 1 ELSE 2
    /\ emb.pc = "try" => Len(emb.sleeps) = Len(emb.outcomes)
    /\ emb.pc = "sleep" => Len(emb.sleeps) = Len(emb.outcomes) - 1 /\ Len(emb.outcomes) < 3
    /\ emb.pc = "done" => Len(emb.sleeps) = Len(emb.outcomes) - 1
    /\ \A i \in 1..Len(emb.outcomes) :
          ~emb.outcomes[i].raised =>
              /\ i = Len(emb.outcomes)
              /\ emb.pc = "done"
              /\ ~emb.returned.raised

\* two attempts failed, the call waited 1 s and 2 s, and the third attempt ended it
C5_Witness ==
    /\ emb.pc = "done"
    /\ Len(emb.outcomes) = 3
    /\ FailedAttempts = {1, 2}
    /\ emb.sleeps = <<1, 2>>

\* the graph executor runs the node that is due, and the calls return
GraphStep ==
    \/ SupervisorAgent
    \/ RagAgent
    \/ ChessAgent
    \/ ToolExecution
    \/ FinalResponseAgent
    \/ ProcessQueryReturn

LiveSpec == Init /\ [][Next]_vars /\ WF_vars(GraphStep)

\* C6: every graph run reaches END, and within one request chess_agent is entered
\* at most 5 times and tool_execution at most 4 times.
C6_RunTerminates ==
    /\ [](Visits("chess_agent") <= 5 /\ Visits("tool_execution") <= 4)
    /\ (pc = "supervisor") ~> (pc = "END")

\* the chess model asked for a tool on every visit: 5 visits, 4 tool runs, then END
C6_Witness ==
    /\ pc = "END"
    /\ Visits("chess_agent") = 5
    /\ Visits("tool_execution") = 4
    /\ Last(state.messages).content = loop_response

\* C7: when the external call of a node raises, the supervisor decides
\* FINAL_RESPONSE and every other node appends its fixed message; the run reaches
\* END and process_message reports success with that message as the response.
C7_NodeExceptionsHandled ==
    (HasReturned /\ run.raised # {}) =>
        /\ pm_result.success
        /\ result.response = pm_result.response
        /\ "supervisor" \in run.raised =>
              /\ state.supervisor_decision = <<"F", "I", "N", "A", "L", "_", "R", "E", "S", "P", "O", "N", "S", "E">>
              /\ Len(run.trace) = 2 /\ run.trace[2] = "final_response"
        /\ "rag_agent" \in run.raised => pm_result.response = rag_fallback_response
        /\ "chess_agent" \in run.raised => pm_result.response = chess_fallback_response
        /\ "final_response" \in run.raised => pm_result.response = final_fallback_response

\* the chess model raised on the visit after a tool run
C7_Witness ==
    /\ HasReturned
    /\ run.raised = {"chess_agent"}
    /\ Visits("tool_execution") = 1
    /\ pm_result.success
    /\ result.response = chess_fallback_response

\* C8: rag_sources is the number of passages the RAG agent retrieved: N when the
\* RAG route answered from N > 0 passages, 0 on every other route.
C8_SourceCount ==
    (HasReturned /\ run.trace # <<>>) =>
        /\ (Entered("rag_agent") /\ run.kb_hits > 0) => result.rag_sources = run.kb_hits
        /\ ~Entered("rag_agent") => result.rag_sources = 0

\* C9: when the graph run completed, agent_used comes from the supervisor decision
\* of this request and names the agent that answered.
C9_RoutingTag ==
    (HasReturned /\ run.trace # <<>> /\ pm_result.success) =>
        /\ result.agent_used = <<"r", "a", "g", " ", "a", "g", "e", "n", "t">> <=> Entered("rag_agent")
        /\ result.agent_used = <<"c", "h", "e", "s", "s", " ", "a", "g", "e", "n", "t">> <=> Entered("chess_agent")
        /\ result.agent_used = <<"s", "u", "p", "e", "r", "v", "i", "s", "o", "r">> <=> run.trace = <<"supervisor", "final_response">>
        /\ result.agent_used = <<"e", "n", "d">> <=> run.trace = <<"supervisor">>
        /\ result.agent_used \in {<<"r", "a", "g", " ", "a", "g", "e", "n", "t">>, <<"c", "h", "e", "s", "s", " ", "a", "g", "e", "n", "t">>, <<"s", "u", "p", "e", "r", "v", "i", "s", "o", "r">>, <<"e", "n", "d">>}

\* the state fed back came from a chess answer and this request was answered by
\* final_response
C9_Witness ==
    /\ HasReturned
    /\ pm_result.success
    /\ DictGet(conversation_state, "supervisor_decision", <<>>) = <<"C", "H", "E", "S", "S", "_", "A", "G", "E", "N", "T">>
    /\ run.trace = <<"supervisor", "final_response">>
    /\ result.agent_used = <<"s", "u", "p", "e", "r", "v", "i", "s", "o", "r">>

\* C10: the graph starts from the chess_data, rag_context and messages of a
\* non-empty conversation_state, the new human message last, and from empty ones
\* otherwise; current_agent, supervisor_decision and iteration_count start at
\* '', '' and 0.
C10_InitialState ==
    (pc = "supervisor") =>
        /\ state.current_agent = ""
        /\ state.supervisor_decision = <<>>
        /\ state.iteration_count = 0
        /\ Last(state.messages) = HumanMessage(query)
        /\ conversation_state = EmptyDict =>
              /\ Len(state.messages) = 1
              /\ state.chess_data = {}
              /\ state.rag_context = {}
        /\ conversation_state # EmptyDict =>
              /\ SubSeq(state.messages, 1, Len(state.messages) - 1)
                     = DictGet(conversation_state, "messages", <<>>)
              /\ state.chess_data = DictGet(conversation_state, "chess_data", {})
              /\ state.rag_context = DictGet(conversation_state, "rag_context", {})

\* a second call starts from a returned state that holds messages and a username
C10_Witness ==
    /\ pc = "supervisor"
    /\ turn = 2
    /\ Len(state.messages) > 2
    /\ DictGet(state.chess_data, "last_username", <<>>) = bob
    /\ DictGet(conversation_state, "iteration_count", 0) > 0

\* the query refers to the user's own games or statistics and names no username
OwnGamesQuery(q) == ContainsAny(Lower(q), my_words) /\ ~Contains(Lower(q), bob)

\* the username the conversation state of the caller holds, <<>> when it holds none
StoredUsername == DictGet(DictGet(conversation_state, "chess_data", EmptyDict), "last_username", <<>>)

\* C11: when the state fed back holds a username U and the query refers to the
\* user's own games or statistics without naming a username, the chess agent hands
\* the model the query suffixed with ' for username U', and last_username is still
\* U after the step.
C11_StoredUsernameReused ==
    (/\ run.trace = <<"supervisor", "chess_agent">>
     /\ OwnGamesQuery(query)
     /\ StoredUsername # <<>>)
    => /\ chess_llm_query(initial_state(query, conversation_state))
              = query \o <<" ", "f", "o", "r", " ", "u", "s", "e", "r", "n", "a", "m", "e", " ">> \o StoredUsername
       /\ DictGet(state.chess_data, "last_username", <<>>) = StoredUsername

\* the response of a call that took the chess route and completed
ChessRouteReturned == HasReturned /\ Entered("chess_agent") /\ pm_result.success

\* C12: on the chess route every tool_execution step is followed at once by a
\* chess_agent step, the run moves on to final_response only when the last message
\* carries no tool calls, and the response returned is the content of an AI
\* message without tool calls that comes after every tool result.
C12_ToolResultsSummarised ==
    /\ \A i \in 1..Len(run.trace) :
          run.trace[i] = "tool_execution" =>
              IF i < Len(run.trace) THEN run.trace[i + 1] = "chess_agent"
              ELSE pc = "chess_agent"
    /\ (pc = "final_response" /\ Entered("chess_agent")) =>
          Last(state.messages).tool_calls = <<>>
    /\ ChessRouteReturned =>
          /\ Last(state.messages).type = "ai"
          /\ Last(state.messages).tool_calls = <<>>
          /\ result.response = Last(state.messages).content
          /\ \E i \in 1..Len(RunMessages) :
                /\ RunMessages[i].type = "ai"
                /\ RunMessages[i].tool_calls = <<>>
                /\ RunMessages[i].content = result.response
                /\ \A j \in 1..Len(RunMessages) : RunMessages[j].type = "tool" => j < i

\* two tool runs were summarised by the model's answer, which the caller got
C12_Witness ==
    /\ ChessRouteReturned
    /\ Visits("tool_execution") = 2
    /\ run.trace[Len(run.trace) - 1] = "chess_agent"
    /\ RunMessages[Len(RunMessages) - 1].type = "tool"
    /\ result.response = llm_answer

\* this step answers a request to the knowledge endpoint
Responds(endpoint) == http'.responses = http.responses + 1 /\ http'.endpoint = endpoint

\* the stored chunks whose filename is filename
ChunksOf(points, filename) == {p \in points : p.filename = filename}

\* this step is upload_chess_knowledge up to its await, for a file of an allowed
\* type and with no failure of Qdrant: it answers, or it goes on to the ingestion
UploadChecks ==
    \/ /\ Responds("upload") /\ Len(pending') = Len(pending)
       /\ http'.file.content_type \in allowed_types
       /\ http'.raised.kind # "Exception"
    \/ /\ Len(pending') = Len(pending) + 1
       /\ Last(pending').handler = "upload"

\* the file of the upload of this step
CheckedFile == IF Len(pending') = Len(pending) THEN http'.file ELSE Last(pending').file

\* this step is the ingestion of an upload, and its answer
UploadIngests == Responds("upload") /\ Len(pending') = Len(pending) - 1

\* the first half of C13: with a client and a stored chunk of the file's name the
\* upload answers exists = True and stores nothing; otherwise it goes on to the
\* ingestion
C13_ExistsStep ==
    UploadChecks =>
        IF qdrant.client # "None" /\ ChunksOf(qdrant.points, CheckedFile.filename) # {}
        THEN /\ Responds("upload")
             /\ http'.exists /\ http'.status = 201
             /\ qdrant'.points = qdrant.points
             /\ pending' = pending
        ELSE /\ pending' = Append(pending, [handler |-> "upload", filename |-> CheckedFile.filename,
                                            file |-> CheckedFile])
             /\ qdrant' = qdrant /\ http' = http

\* the ingestion has stored the chunks of the file and reported exists = False
Ingested ==
    /\ http'.status = 201 /\ ~http'.exists
    /\ http'.chunks_created = http'.file.chunks
    /\ qdrant.points \subseteq qdrant'.points
    /\ Cardinality(qdrant'.points \ qdrant.points) = http'.file.chunks
    /\ \A p \in qdrant'.points \ qdrant.points :
          p.filename = http'.file.filename /\ p.file_hash = http'.file.file_hash

C15_OverwriteReplaces ==
    [][(Responds("overwrite") /\ http'.status = 200) =>
          /\ ChunksOf(qdrant'.points, http'.filename) # {}
          /\ \A p \in ChunksOf(qdrant'.points, http'.filename) :
                p \notin qdrant.points /\ p.file_hash = http'.file.file_hash
          /\ \A p \in qdrant.points \cup qdrant'.points :
                p.filename # http'.filename => (p \in qdrant.points <=> p \in qdrant'.points)]_vars

\* C16: the status of an HTTPException raised inside a knowledge handler is the
\* status the client gets: 400 for an unsupported type, 404 for a file that is
\* not stored, 503 without a client; none becomes a 500.
C16_HttpErrorsUnchanged ==
    http.raised.kind = "HTTPException" => http.status = http.raised.status

\* C17: data.vector_storage is true only when the game was stored in the vector
\* database: it is false when Qdrant is not available and when the storing
\* returns False or raises; in all those cases the analysis is returned with
\* success = True.
C17_VectorStorageFlag ==
    (pgn.calls > 0 /\ Strip(pgn.request.pgn) # <<>> /\ pgn.agent.success) =>
        /\ pgn.success
        /\ pgn.analysis_summary = pgn.agent.analysis
        /\ pgn.vector_storage => pgn.stored
        /\ ~qdrant_available_of(pgn.request, pgn.env_key) => ~pgn.vector_storage
        /\ pgn.store \in {"client_raises", "collection_fails"} => ~pgn.vector_storage

\* C18: a request with a non-blank pgn for which the agent's analysis succeeds is
\* answered with success = True and the agent's analysis as analysis_summary; a
\* blank pgn is answered 400 and the agent is not invoked; an agent result with
\* success = False is answered 500.
C18_PgnAnalysisReturned ==
    pgn.calls > 0 =>
        IF Strip(pgn.request.pgn) = <<>> THEN pgn.status = 400 /\ ~pgn.agent_invoked
        ELSE IF pgn.agent.success
        THEN pgn.status = 200 /\ pgn.success /\ pgn.analysis_summary = pgn.agent.analysis
        ELSE pgn.status = 500

\* C19: when all three attempts fail, the call raises the exception of the third
\* attempt, with no sleep after it, and it never returns an empty list; when an
\* attempt succeeds the call returns the embeddings of that attempt; a failure
\* ends the call only at the third attempt, whatever the exception, the ValueError
\* of a missing key included.
C19_BackoffResult ==
    /\ emb.pc = "sleep" => Len(emb.outcomes) < 3
    /\ (emb.pc = "done" /\ emb.calls > 0) =>
          LET n == Len(emb.outcomes)
          IN  /\ n \in 1..3
              /\ emb.returned.raised = emb.outcomes[n].raised
              /\ emb.returned.value = emb.outcomes[n].value
              /\ emb.returned.raised =>
                    /\ n = 3
                    /\ \A i \in 1..3 : emb.outcomes[i].raised
                    /\ Len(emb.sleeps) = 2
              /\ ~emb.returned.raised => emb.returned.value # <<>>
              /\ ~emb.has_key =>
                    /\ n = 3
                    /\ \A i \in 1..3 : emb.outcomes[i].raised /\ emb.outcomes[i].value = "ValueError"

\* three attempts failed with different exceptions and the call raised the third
C19_Witness ==
    /\ emb.pc = "done"
    /\ Len(emb.outcomes) = 3
    /\ emb.returned.raised
    /\ emb.outcomes[1].value = "RateLimitError"
    /\ emb.outcomes[2].value = "RateLimitError"
    /\ emb.outcomes[3].value = "APIConnectionError"
    /\ emb.returned.value = "APIConnectionError"
    /\ emb.sleeps = <<1, 2>>

\* the messages of the state process_message returned
ReturnedMessages == DictGet(pm_result.state, "messages", <<>>)

\* C20: the state process_message returns holds the last 10 messages of the run,
\* or all of them when there are fewer, in their order; the conversation state
\* never holds more than 10 messages and a graph run never starts with more than 11.
C20_MessageCap ==
    /\ (HasReturned /\ pm_result.success) =>
          LET n == Len(ReturnedMessages)
              all == Len(state.messages)
          IN  /\ n = IF all < 10 THEN all ELSE 10
              /\ \A i \in 1..n : ReturnedMessages[i] = state.messages[all - n + i]
    /\ Len(DictGet(result.conversation_state, "messages", <<>>)) <= 10
    /\ Len(DictGet(conversation_state, "messages", <<>>)) <= 10
    /\ pc = "supervisor" => Len(state.messages) <= 11

\* the second run started with 11 messages and ended with more; its first ones
\* were dropped
C20_Witness ==
    /\ HasReturned /\ pm_result.success
    /\ turn = 2
    /\ Len(DictGet(conversation_state, "messages", <<>>)) = 10
    /\ Len(state.messages) > 11
    /\ Len(ReturnedMessages) = 10
    /\ ReturnedMessages[1] # state.messages[1]

\* the answers of a run: its AI messages that ask for no tool
FinalAnswers == {i \in 1..Len(RunMessages) :
                    RunMessages[i].type = "ai" /\ RunMessages[i].tool_calls = <<>>}

\* C21 (the step): final_response entered after a specialist leaves the state as
\* it is and calls no LLM; entered from the supervisor it calls the LLM once and
\* appends one AI message.
C21_Step ==
    (pc = "final_response" /\ pc' = "END") =>
        IF Entered("rag_agent") \/ Entered("chess_agent")
        THEN /\ Last(state.messages).type = "ai"
             /\ state.current_agent \in {"rag_agent", "chess_agent"}
             /\ state' = state
             /\ run'.llm_calls = run.llm_calls
        ELSE /\ run.trace = <<"supervisor">>
             /\ run'.llm_calls = run.llm_calls + 1
             /\ Len(state'.messages) = Len(state.messages) + 1
             /\ SubSeq(state'.messages, 1, Len(state.messages)) = state.messages
             /\ Last(state'.messages).type = "ai"
             /\ Last(state'.messages).tool_calls = <<>>

\* C21 (the run): a run that passed through final_response appended one answer,
\* its last message, and that answer is the response.
C21_OneAnswer ==
    (HasReturned /\ Entered("final_response")) =>
        /\ Cardinality(FinalAnswers) = 1
        /\ Len(RunMessages) \in FinalAnswers
        /\ pm_result.success
        /\ result.response = Last(state.messages).content

\* C21: final_response passes the answer of a specialist through unchanged without
\* calling an LLM, answers itself with one AI message only when entered from the
\* supervisor, and every run through final_response appends exactly one answer.
C21_FinalResponseOnce == [](C21_OneAnswer) /\ [][C21_Step]_vars

\* the chess agent answered after a tool run and final_response passed it through
C21_Witness ==
    /\ HasReturned
    /\ run.trace = <<"supervisor", "chess_agent", "tool_execution", "chess_agent", "final_response">>
    /\ run.raised = {}
    /\ state.current_agent = "chess_agent"
    /\ Cardinality(FinalAnswers) = 1
    /\ result.response = Last(state.messages).content

\* the call that has returned was no greeting and carried no usable OpenAI key
KeylessCall == HasReturned /\ ~is_greeting(query) /\ run.key \in {"None", "", "dummy"}

\* C22 (the reply): such a call returned agent_used 'error', rag_sources 0 and the
\* conversation state of the caller, and the call built no model, called no LLM
\* and ran no graph node.
C22_ErrorReply ==
    KeylessCall =>
        /\ result.agent_used = <<"e", "r", "r", "o", "r">>
        /\ result.rag_sources = 0
        /\ result.conversation_state = conversation_state
        /\ run.models_built = 0
        /\ run.llm_calls = 0
        /\ run.trace = <<>>

\* C22 (the step): the step of such a call leaves the models, the compiled graph
\* and the state of the last graph run as they were.
C22_Step ==
    (turn' = turn + 1 /\ ~is_greeting(query') /\ run'.key \in {"None", "", "dummy"}) =>
        /\ pc' = "idle"
        /\ self'.supervisor_model = self.supervisor_model
        /\ self'.graph = self.graph
        /\ state' = state
        /\ pm_result' = pm_result

\* C22: a call of process_query that is no greeting and whose api_keys hold no
\* openai_key, an empty one or 'dummy' returns agent_used 'error', rag_sources 0
\* and the caller's conversation_state unchanged, and builds no model, rebuilds no
\* graph and calls no LLM.
C22_InvalidKeyRejected == [](C22_ErrorReply) /\ [][C22_Step]_vars

\* a second call came with the key 'dummy' and a state from a first, answered call
C22_Witness ==
    /\ KeylessCall
    /\ turn = 2
    /\ run.key = "dummy"
    /\ self.graph = "compiled"
    /\ conversation_state # EmptyDict
    /\ result.agent_used = <<"e", "r", "r", "o", "r">>
    /\ result.conversation_state = conversation_state

\* a call of retrieve_documents has returned
RetrieveReturned == retriever.pc = "idle" /\ retriever.calls > 0

\* the results of the searches of the call that did not fail, those without
\* text left out
FoundResults ==
    {r \in UNION { {retriever.search_results[i].value[j] :
                       j \in 1..Len(retriever.search_results[i].value)} :
                   i \in {n \in 1..Len(retriever.search_results) :
                             ~retriever.search_results[n].raised} } :
        r.content # ""}

\* the passages found, and the best score each of them got
FoundPassages == {r.content : r \in FoundResults}

BestScore(content) ==
    CHOOSE s \in Similarities :
        /\ \E r \in FoundResults : r.content = content /\ r.score = s
        /\ \A r \in FoundResults : r.content = content => r.score <= s

\* C23: retrieve_documents returns at most k documents of different content, in
\* the order of non-increasing score; they are the k best-scoring distinct passages
\* among the results of all the expanded queries, whether or not the search of
\* another expanded query failed; without a Qdrant client, or after an outer error,
\* it returns the empty list and raises nothing.
C23_TopKDistinct ==
    RetrieveReturned =>
        LET docs == retriever.returned.value
            passages == {docs[i].page_content : i \in 1..Len(docs)}
        IN  /\ ~retriever.returned.raised
            /\ Len(docs) <= retriever.k
            /\ \A i, j \in 1..Len(docs) :
                  i < j => /\ docs[i].page_content # docs[j].page_content
                           /\ docs[i].score >= docs[j].score
            /\ passages \subseteq FoundPassages
            /\ Len(docs) = IF Cardinality(FoundPassages) < retriever.k
                           THEN Cardinality(FoundPassages) ELSE retriever.k
            /\ \A c \in passages, d \in FoundPassages \ passages : BestScore(d) <= BestScore(c)
            /\ retriever.qdrant_client = "None" => docs = <<>>

====
